---- MODULE Spec2Model ----
(***************************************************************************)
(* A model of the sudoku crate (src/src/lib.rs) and of its driver          *)
(* (src/src/main.rs): a text is parsed into a Grid, Grid::solve() builds a *)
(* Solver or fails, and the Solver is pulled (Iterator::next) one loop     *)
(* iteration at a time.                                                    *)
(*                                                                         *)
(* Representation.  A text (&str) is a sequence of one-character strings.  *)
(* Option<T> is a sequence of length 0 (None) or 1 (Some).  A Digit is a   *)
(* record [some, given, index]; Digit::None is the record with some =      *)
(* FALSE.  Arrays indexed 0..8 are functions over INDICES.                 *)
(***************************************************************************)
EXTENDS Integers, Sequences, FiniteSets, TLC

(* ------------------------------ SETUP ---------------------------------- *)

ROW_PER_BLOCK == 3
COL_PER_BLOCK == 3
SYMBOLS == <<"1", "2", "3", "4", "5", "6", "7", "8", "9">>
PLACEHOLDER == "_"
SEPARATOR == ","

SIZE == ROW_PER_BLOCK * COL_PER_BLOCK
INDICES == 0 .. (SIZE - 1)

None == <<>>
Some(x) == <<x>>

(* SYMBOLS.iter().position(|&s| s == symbol): the first position, from 0,  *)
(* whose symbol is the whole slice.                                        *)
RECURSIVE position(_, _)
position(symbol, i) ==
    IF i >= SIZE THEN None
    ELSE IF <<SYMBOLS[i + 1]>> = symbol THEN Some(i)
    ELSE position(symbol, i + 1)

from_symbol(symbol) == position(symbol, 0)

from_index(index) == SYMBOLS[index + 1]

(* ------------------------------ DIGIT ---------------------------------- *)

DigitNone == [some |-> FALSE, given |-> FALSE, index |-> 0]
DigitSome(given, index) == [some |-> TRUE, given |-> given, index |-> index]

Ok(v) == [ok |-> TRUE, val |-> v, err |-> ""]
Err(e) == [ok |-> FALSE, val |-> <<>>, err |-> e]

(* Digit_from_str with the digit not flagged given. *)
Digit_from_str_not_given(slice) ==
    IF slice = <<PLACEHOLDER>> THEN Ok(DigitNone)
    ELSE LET index == from_symbol(slice) IN
         IF index = None THEN Err("Unknown")
         ELSE Ok(DigitSome(FALSE, index[1]))

(* impl FromStr for Digit *)
Digit_from_str(slice) ==
    IF slice = <<PLACEHOLDER>> THEN Ok(DigitNone)
    ELSE LET index == from_symbol(slice) IN
         IF index = None THEN Err("Unknown")
         ELSE Ok(DigitSome(TRUE, index[1]))

(* impl Display for Digit *)
Digit_fmt(digit) ==
    IF ~digit.some THEN <<PLACEHOLDER>> ELSE <<from_index(digit.index)>>

(* Digit_eq as #[derive(PartialEq)] would make it: given is compared too. *)
Digit_eq_derived(a, b) == a = b

(* impl PartialEq for Digit: the given flag is not compared. *)
Digit_eq(a, b) ==
    IF ~a.some /\ ~b.some THEN TRUE
    ELSE IF a.some /\ b.some THEN a.index = b.index
    ELSE FALSE

(* ------------------------------ BITSET --------------------------------- *)

BitSetDefault == [i \in INDICES |-> FALSE]
BitSet_set(bs, index) == [bs EXCEPT ![index] = TRUE]
BitSet_reset(bs, index) == [bs EXCEPT ![index] = FALSE]
BitSet_contains(bs, index) == bs[index]
BitSet_bitor(a, b) ==
    [index \in INDICES |-> BitSet_contains(a, index) \/ BitSet_contains(b, index)]

(* ------------------------------- GRID ---------------------------------- *)

GridDefault == [r \in INDICES |-> [c \in INDICES |-> DigitNone]]

(* #[derive(PartialEq)] for Grid: the arrays are compared cell by cell     *)
(* with Digit::eq.                                                         *)
Grid_eq(a, b) == \A r \in INDICES : \A c \in INDICES : Digit_eq(a[r][c], b[r][c])

(* str::split(SEPARATOR): the slices between separators; a text with no    *)
(* separator (the empty text included) is one slice.                       *)
RECURSIVE split(_)
split(value) ==
    IF \A i \in 1 .. Len(value) : value[i] # SEPARATOR THEN <<value>>
    ELSE LET first == CHOOSE i \in 1 .. Len(value) :
                          /\ value[i] = SEPARATOR
                          /\ \A j \in 1 .. (i - 1) : value[j] # SEPARATOR
         IN  <<SubSeq(value, 1, first - 1)>>
                 \o split(SubSeq(value, first + 1, Len(value)))

(* The loop of Grid::from_str.  grid_iter is iter_mut().flatten(): it      *)
(* walks the rows and, in each row, its cells, while value_iter yields the *)
(* slices; row * SIZE + col pairs have been consumed so far.               *)
RECURSIVE from_str_cells(_, _, _, _)
from_str_cells(tokens, row, col, cells) ==
    LET n == row * SIZE + col IN
    IF col = SIZE THEN Ok(cells)
    ELSE IF n >= Len(tokens) THEN Err("InvalidDigitCount")
    ELSE LET digit == Digit_from_str(tokens[n + 1]) IN
         IF ~digit.ok THEN Err("ParseDigit(Unknown)")
         ELSE from_str_cells(tokens, row, col + 1, [cells EXCEPT ![col] = digit.val])

(* from_str_loop that stops at the last cell whatever slices are left. *)
RECURSIVE from_str_loop_lenient(_, _, _)
from_str_loop_lenient(tokens, row, result) ==
    IF row = SIZE THEN Ok(result)
    ELSE LET cells == from_str_cells(tokens, row, 0, result[row]) IN
         IF ~cells.ok THEN Err(cells.err)
         ELSE from_str_loop_lenient(tokens, row + 1, [result EXCEPT ![row] = cells.val])

RECURSIVE from_str_loop(_, _, _)
from_str_loop(tokens, row, result) ==
    IF row = SIZE
    THEN IF Len(tokens) > SIZE * SIZE THEN Err("InvalidDigitCount") ELSE Ok(result)
    ELSE LET cells == from_str_cells(tokens, row, 0, result[row]) IN
         IF ~cells.ok THEN Err(cells.err)
         ELSE from_str_loop(tokens, row + 1, [result EXCEPT ![row] = cells.val])

(* impl FromStr for Grid *)
Grid_from_str(value) == from_str_loop(split(value), 0, GridDefault)

(* impl Display for Grid: for each row a newline, then each digit of the   *)
(* row followed by the separator.                                          *)
(* fmt_row that writes the separator between the digits of a row only. *)
RECURSIVE fmt_row_joined(_, _)
fmt_row_joined(row, col) ==
    IF col = SIZE THEN <<>>
    ELSE IF col = SIZE - 1 THEN Digit_fmt(row[col])
    ELSE Digit_fmt(row[col]) \o <<SEPARATOR>> \o fmt_row_joined(row, col + 1)

RECURSIVE fmt_row(_, _)
fmt_row(row, col) ==
    IF col = SIZE THEN <<>>
    ELSE Digit_fmt(row[col]) \o <<SEPARATOR>> \o fmt_row(row, col + 1)

RECURSIVE Grid_fmt(_, _)
Grid_fmt(grid, row) ==
    IF row = SIZE THEN <<>>
    ELSE <<"\n">> \o fmt_row(grid[row], 0) \o Grid_fmt(grid, row + 1)

(* format!("{grid}") *)
to_string(grid) == Grid_fmt(grid, 0)

(* ------------------------------ CURSOR --------------------------------- *)

CursorDefault == [index |-> 0, forward |-> TRUE]

(* Cursor::item: (row, col, blk) *)
Cursor_item(cursor) ==
    LET row == cursor.index \div SIZE
        col == cursor.index % SIZE
        blk == (row \div ROW_PER_BLOCK) * ROW_PER_BLOCK + (col \div COL_PER_BLOCK)
    IN  <<row, col, blk>>

(* The cursor methods take &mut self and return Result<(), CursorError>:   *)
(* each operator gives the cursor after the call and the result.           *)
(* Cursor_next that leaves forward as it is at the last cell. *)
Cursor_next_same_way(cursor) ==
    IF cursor.index = SIZE * SIZE - 1
    THEN [cursor |-> cursor, ok |-> FALSE, err |-> "AfterEnd"]
    ELSE [cursor |-> [index |-> cursor.index + 1, forward |-> TRUE], ok |-> TRUE, err |-> ""]

(* Cursor_next whose boundary test is one too far. *)
Cursor_next_past_end(cursor) ==
    IF cursor.index = SIZE * SIZE
    THEN [cursor |-> [cursor EXCEPT !.forward = FALSE], ok |-> FALSE, err |-> "AfterEnd"]
    ELSE [cursor |-> [index |-> cursor.index + 1, forward |-> TRUE], ok |-> TRUE, err |-> ""]

Cursor_next(cursor) ==
    IF cursor.index = SIZE * SIZE - 1
    THEN [cursor |-> [cursor EXCEPT !.forward = FALSE], ok |-> FALSE, err |-> "AfterEnd"]
    ELSE [cursor |-> [index |-> cursor.index + 1, forward |-> TRUE], ok |-> TRUE, err |-> ""]

(* Cursor_prev that leaves forward as it is at the first cell. *)
Cursor_prev_same_way(cursor) ==
    IF cursor.index = 0
    THEN [cursor |-> cursor, ok |-> FALSE, err |-> "BeforeBegin"]
    ELSE [cursor |-> [index |-> cursor.index - 1, forward |-> FALSE], ok |-> TRUE, err |-> ""]

Cursor_prev(cursor) ==
    IF cursor.index = 0
    THEN [cursor |-> [cursor EXCEPT !.forward = TRUE], ok |-> FALSE, err |-> "BeforeBegin"]
    ELSE [cursor |-> [index |-> cursor.index - 1, forward |-> FALSE], ok |-> TRUE, err |-> ""]

(* Cursor_skip that always goes forward. *)
Cursor_skip_forward(cursor) == Cursor_next(cursor)

(* Cursor_skip with the arms of its match exchanged. *)
Cursor_skip_reversed(cursor) ==
    IF cursor.forward THEN Cursor_prev(cursor) ELSE Cursor_next(cursor)

Cursor_skip(cursor) ==
    IF cursor.forward THEN Cursor_next(cursor) ELSE Cursor_prev(cursor)

(* ------------------------------ SOLVER --------------------------------- *)

Solver_new(grid) ==
    [grid |-> grid,
     cursor |-> CursorDefault,
     row_states |-> [i \in INDICES |-> BitSetDefault],
     col_states |-> [i \in INDICES |-> BitSetDefault],
     blk_states |-> [i \in INDICES |-> BitSetDefault]]

(* taken_at without the block. *)
taken_at_no_blk(s, row, col, blk) ==
    BitSet_bitor(s.row_states[row], s.col_states[col])

(* row_states[row] | col_states[col] | blk_states[blk] *)
taken_at(s, row, col, blk) ==
    BitSet_bitor(BitSet_bitor(s.row_states[row], s.col_states[col]), s.blk_states[blk])

(* set_states that forgets the column. *)
set_states_no_col(s, row, col, blk, index) ==
    [s EXCEPT !.row_states[row] = BitSet_set(@, index),
              !.blk_states[blk] = BitSet_set(@, index)]

(* .set(index) on the three house BitSets of a cell *)
set_states(s, row, col, blk, index) ==
    [s EXCEPT !.row_states[row] = BitSet_set(@, index),
              !.col_states[col] = BitSet_set(@, index),
              !.blk_states[blk] = BitSet_set(@, index)]

(* reset_states that forgets the block. *)
reset_states_no_blk(s, row, col, blk, index) ==
    [s EXCEPT !.row_states[row] = BitSet_reset(@, index),
              !.col_states[col] = BitSet_reset(@, index)]

(* .reset(index) on the three house BitSets of a cell *)
reset_states(s, row, col, blk, index) ==
    [s EXCEPT !.row_states[row] = BitSet_reset(@, index),
              !.col_states[col] = BitSet_reset(@, index),
              !.blk_states[blk] = BitSet_reset(@, index)]

(* The loop of Solver::try_from, with its own local cursor. *)
RECURSIVE try_from_loop(_, _)
try_from_loop(result, cursor) ==
    LET it == Cursor_item(cursor)
        row == it[1]
        col == it[2]
        blk == it[3]
        digit == result.grid[row][col]
        clash == digit.some
                 /\ BitSet_contains(taken_at(result, row, col, blk), digit.index)
        marked == IF digit.some
                  THEN set_states(result, row, col, blk, digit.index)
                  ELSE result
        moved == Cursor_next(cursor)
    IN  IF clash THEN Err("InvalidGrid")
        ELSE IF ~moved.ok THEN Ok(marked)
        ELSE try_from_loop(marked, moved.cursor)

(* try_from that walks the grid with the Solver's own cursor. *)
try_from_own_cursor(value) ==
    LET r == try_from_loop(Solver_new(value), CursorDefault) IN
    IF r.ok
    THEN Ok([r.val EXCEPT !.cursor = [index |-> SIZE * SIZE - 1, forward |-> FALSE]])
    ELSE r

(* impl TryFrom<Grid> for Solver; Grid::solve delegates to it. *)
try_from(value) == try_from_loop(Solver_new(value), CursorDefault)

Grid_solve(grid) == try_from(grid)

(* next_index: the for loop over INDICES, from `available` on. *)
RECURSIVE next_index_from(_, _, _)
next_index_from(available, digit, taken) ==
    IF available >= SIZE THEN None
    ELSE IF BitSet_contains(taken, available)
         THEN next_index_from(available + 1, digit, taken)
    ELSE IF digit.some /\ available <= digit.index
         THEN next_index_from(available + 1, digit, taken)
    ELSE Some(available)

(* next_index that does not look at taken. *)
next_index_any(digit, taken) == next_index_from(0, digit, BitSetDefault)

(* next_index that tries only the upper indices, 5..SIZE-1. *)
next_index_upper(digit, taken) == next_index_from(5, digit, taken)

(* next_index that does not look at the digit the cell holds. *)
next_index_restart(digit, taken) == next_index_from(0, DigitNone, taken)

next_index(digit, taken) == next_index_from(0, digit, taken)

(* One iteration of the loop of Solver::next.  Each branch gives the       *)
(* Solver after the iteration and ret: None while the loop continues,      *)
(* Some(item) when the call returns item (itself None or Some(grid)).      *)

cur_digit(s) ==
    LET it == Cursor_item(s.cursor) IN s.grid[it[1]][it[2]]

(* is_given with the flag read the wrong way round. *)
is_given_flipped(digit) == digit.some /\ ~digit.given

(* lines 304-305: if let Digit::Some { given, .. } = digit { if given *)
is_given(digit) == digit.some /\ digit.given

cur_taken(s) ==
    LET it == Cursor_item(s.cursor) IN taken_at(s, it[1], it[2], it[3])

(* skip_given that moves a copy of the cursor when skip() fails. *)
skip_given_stay(s) ==
    LET moved == Cursor_skip(s.cursor)
        after == [s EXCEPT !.cursor = moved.cursor]
    IN  IF moved.ok THEN [solver |-> after, ret |-> None]
        ELSE IF moved.err = "BeforeBegin" THEN [solver |-> s, ret |-> Some(None)]
        ELSE [solver |-> s, ret |-> Some(Some(s.grid))]

(* lines 304-319: the cursor points to a given digit *)
skip_given(s) ==
    LET moved == Cursor_skip(s.cursor)
        after == [s EXCEPT !.cursor = moved.cursor]
    IN  IF moved.ok THEN [solver |-> after, ret |-> None]
        ELSE IF moved.err = "BeforeBegin" THEN [solver |-> after, ret |-> Some(None)]
        ELSE [solver |-> after, ret |-> Some(Some(after.grid))]

(* retract that unmarks the guess and leaves it in the grid. *)
retract_marks_only(s) ==
    LET it == Cursor_item(s.cursor)
        digit == cur_digit(s)
    IN  IF digit.some
        THEN reset_states(s, it[1], it[2], it[3], digit.index)
        ELSE s

(* lines 323-328: a guess held by the cell is taken back *)
retract(s) ==
    LET it == Cursor_item(s.cursor)
        digit == cur_digit(s)
    IN  IF digit.some
        THEN [reset_states(s, it[1], it[2], it[3], digit.index)
                 EXCEPT !.grid[it[1]][it[2]] = DigitNone]
        ELSE s

(* no_index that leaves the cell as it found it. *)
no_index_keep_guess(s) ==
    LET moved == Cursor_prev(s.cursor)
        after == [s EXCEPT !.cursor = moved.cursor]
    IN  IF ~moved.ok THEN [solver |-> after, ret |-> Some(None)]
        ELSE [solver |-> after, ret |-> None]

(* lines 330-335: no index is possible, decrease cursor *)
no_index(s) ==
    LET cleared == retract(s)
        moved == Cursor_prev(cleared.cursor)
        after == [cleared EXCEPT !.cursor = moved.cursor]
    IN  IF ~moved.ok THEN [solver |-> after, ret |-> Some(None)]
        ELSE [solver |-> after, ret |-> None]

(* lines 336-346: an index is available, set digit and increase cursor *)
set_index(s, index) ==
    LET it == Cursor_item(s.cursor)
        cleared == retract(s)
        marked == [set_states(cleared, it[1], it[2], it[3], index)
                      EXCEPT !.grid[it[1]][it[2]] = DigitSome(FALSE, index)]
        moved == Cursor_next(marked.cursor)
        after == [marked EXCEPT !.cursor = moved.cursor]
    IN  IF ~moved.ok THEN [solver |-> after, ret |-> Some(Some(after.grid))]
        ELSE [solver |-> after, ret |-> None]

(* ------------------------------ INPUTS --------------------------------- *)
(* The texts handed to the program.  A puzzle is 81 values in row-major    *)
(* order, 0 for an empty cell; its text is its tokens joined by the        *)
(* separator, the form the tests of lib.rs write.                          *)

MaxFree == 4
MaxPulls == 5
MaxExtra == 2

CELLS == SIZE * SIZE

(* tests::one_solution, `expected` *)
Solved ==
    << 5,3,4,6,7,8,9,1,2,
       6,7,2,1,9,5,3,4,8,
       1,9,8,3,4,2,5,6,7,
       8,5,9,7,6,1,4,2,3,
       4,2,6,8,5,3,7,9,1,
       7,1,3,9,2,4,8,5,6,
       9,6,1,5,3,7,2,8,4,
       2,8,7,4,1,9,6,3,5,
       3,4,5,2,8,6,1,7,9 >>

(* Solved with the four cells (6,3) (6,8) (7,3) (7,8) open: two ways to    *)
(* fill them.                                                              *)
TwoOpen == [i \in 1 .. CELLS |-> IF i - 1 \in {57, 62, 66, 71} THEN 0 ELSE Solved[i]]

(* The other way to fill the four cells of TwoOpen. *)
Swapped ==
    [i \in 1 .. CELLS |->
        IF i - 1 \in {57, 71} THEN 4 ELSE IF i - 1 \in {62, 66} THEN 5 ELSE Solved[i]]

(* tests::invalid_inputs starts from the grid with no digit. *)
Blank == [i \in 1 .. CELLS |-> 0]

(* Cells (by cursor index) that a puzzle may leave open, and digits it may *)
(* write over a cell: <<index, value>>.                                    *)
Holes == {0, 3, 4, 30, 80}
Overwrites == {<<3, 7>>, <<4, 6>>, <<0, 1>>, <<80, 8>>, <<57, 4>>, <<62, 5>>, <<30, 6>>}

(* Pairs of digits written on the blank grid: same row, same column, same  *)
(* block, and no common house.                                             *)
SparseCells == {<<0, 8>>, <<0, 72>>, <<70, 80>>, <<0, 80>>}
SparseValues == {1, 2}

with_values(values, open, written) ==
    [i \in 1 .. CELLS |->
        IF \E w \in written : w[1] = i - 1
        THEN (CHOOSE w \in written : w[1] = i - 1)[2]
        ELSE IF i - 1 \in open THEN 0
        ELSE values[i]]

(* TwoOpen with up to MaxFree more cells open; the same with one digit     *)
(* written over and up to MaxFree - 2 more cells open; the two full grids; *)
(* the blank grid with two digits.                                         *)
Puzzles ==
    {with_values(TwoOpen, open, {}) :
        open \in {h \in SUBSET Holes : Cardinality(h) <= MaxFree}}
    \cup
    {with_values(TwoOpen, open, {w}) :
        open \in {h \in SUBSET Holes : Cardinality(h) <= MaxFree - 2},
        w \in Overwrites}
    \cup
    {Solved, Swapped}
    \cup
    {with_values(Blank, {}, {<<c[1], v>>, <<c[2], w>>}) :
        c \in SparseCells, v \in SparseValues, w \in SparseValues}

token_of(value) == IF value = 0 THEN <<PLACEHOLDER>> ELSE <<SYMBOLS[value]>>

tokens_of(values) == [i \in 1 .. CELLS |-> token_of(values[i])]

(* Texts that are not a grid: n tokens instead of 81, and one token        *)
(* replaced by something that is no digit.                                 *)
BadTokens == {<<"x">>, <<"0">>, <<>>, <<"1", "2">>, <<" ", "5">>}
BadPlaces == {1, 41, CELLS, CELLS + 1}
Counts == {1, 2, CELLS - 1} \cup (CELLS .. CELLS + MaxExtra)

resized(tokens, n) ==
    [i \in 1 .. n |-> IF i <= Len(tokens) THEN tokens[i] ELSE <<PLACEHOLDER>>]

replaced(tokens, k, bad) ==
    IF k <= Len(tokens) THEN [tokens EXCEPT ![k] = bad] ELSE tokens

Malformed ==
    {resized(tokens_of(values), n) : values \in {Solved, Blank}, n \in Counts}
    \cup
    {replaced(resized(tokens_of(values), n), k, bad) :
        values \in {Solved, Blank}, n \in Counts, k \in BadPlaces, bad \in BadTokens}

RECURSIVE join(_)
join(tokens) ==
    IF Len(tokens) = 0 THEN <<>>
    ELSE IF Len(tokens) = 1 THEN tokens[1]
    ELSE tokens[1] \o <<SEPARATOR>> \o join(Tail(tokens))

Texts == {join(tokens_of(values)) : values \in Puzzles} \cup {join(tokens) : tokens \in Malformed}

(* ------------------------------ STATE ---------------------------------- *)

VARIABLES
    pc,       \* where the caller is: "main", "parsed", "parse_error",
              \* "invalid", "idle" (between pulls), "loop" (inside next())
    text,     \* the argument of parse; dropped once the grid is solved
    parsed,   \* Option<Result<Grid, ParseGridError>>: what parse returned
    solver,   \* Option<Solver>: the Solver that solve() returned, as it is now
    results,  \* what the pulls so far returned, each None or Some(grid)
    output,   \* the last grid main printed, as rendered ("{grid}")
    cursor,   \* a Cursor on its own, called in any order
    called    \* Option: the last call on cursor: its name, the cursor
              \* before it, and what it returned

vars == <<pc, text, parsed, solver, results, output, cursor, called>>

Init ==
    /\ pc = "main"
    /\ text \in Texts
    /\ parsed = None
    /\ solver = None
    /\ results = <<>>
    /\ output = <<>>
    /\ cursor = CursorDefault
    /\ called = None

(* main.rs 14-18, the tests: text.parse::<Grid>() *)
Parse ==
    /\ pc = "main"
    /\ LET r == Grid_from_str(text) IN
       /\ parsed' = Some(r)
       /\ pc' = IF r.ok THEN "parsed" ELSE "parse_error"
       /\ output' = IF r.ok THEN to_string(r.val) ELSE output
    /\ UNCHANGED <<text, solver, results, cursor, called>>

(* main.rs 22-24, the tests: grid.solve() *)
Solve ==
    /\ pc = "parsed"
    /\ LET r == Grid_solve(parsed[1].val) IN
       /\ solver' = IF r.ok THEN Some(r.val) ELSE None
       /\ pc' = IF r.ok THEN "idle" ELSE "invalid"
    /\ text' = <<>>
    /\ UNCHANGED <<parsed, results, output, cursor, called>>

(* A call of Solver::next enters its loop. *)
Pull ==
    /\ pc = "idle"
    /\ Len(results) < MaxPulls
    /\ pc' = "loop"
    /\ UNCHANGED <<text, parsed, solver, results, output, cursor, called>>

(* The end of an iteration: the loop goes on, or the call returns. *)
finish(r) ==
    /\ solver' = Some(r.solver)
    /\ IF r.ret = None
       THEN pc' = "loop" /\ results' = results
       ELSE pc' = "idle" /\ results' = Append(results, r.ret[1])
    /\ output' = IF r.ret # None /\ r.ret[1] # None THEN to_string(r.ret[1][1]) ELSE output
    /\ UNCHANGED <<text, parsed, cursor, called>>

SkipGiven ==
    /\ pc = "loop"
    /\ is_given(cur_digit(solver[1]))
    /\ finish(skip_given(solver[1]))

NoIndex ==
    /\ pc = "loop"
    /\ ~is_given(cur_digit(solver[1]))
    /\ next_index(cur_digit(solver[1]), cur_taken(solver[1])) = None
    /\ finish(no_index(solver[1]))

SetIndex ==
    /\ pc = "loop"
    /\ ~is_given(cur_digit(solver[1]))
    /\ next_index(cur_digit(solver[1]), cur_taken(solver[1])) # None
    /\ finish(set_index(solver[1],
                        next_index(cur_digit(solver[1]), cur_taken(solver[1]))[1]))

Iterate == SkipGiven \/ NoIndex \/ SetIndex

Next == Parse \/ Solve \/ Pull \/ SkipGiven \/ NoIndex \/ SetIndex

Spec == Init /\ [][Next]_vars

(* Liveness is checked on fewer texts: the puzzles that leave the first or *)
(* the last cell open, the blank grid with two digits of one block, and    *)
(* the full grid.                                                          *)
LiveTexts ==
    {join(tokens_of(with_values(TwoOpen, open, written))) :
        open \in SUBSET {0, 80}, written \in {{}} \cup {{w} : w \in Overwrites}}
    \cup
    {join(tokens_of(with_values(Blank, {}, {<<70, v>>, <<80, w>>}))) :
        v \in SparseValues, w \in SparseValues}
    \cup
    {join(tokens_of(Solved))}

LiveInit == Init /\ text \in LiveTexts

(* Each call of next() runs its loop to its return, and the driver's for   *)
(* loop (main.rs 25) keeps pulling.                                        *)
FairSpec == LiveInit /\ [][Next]_vars /\ WF_vars(Iterate) /\ WF_vars(Pull)

(* A Cursor on its own: from Cursor::default(), next(), prev() and skip()  *)
(* are called in any order.                                                *)
CursorInit ==
    /\ pc = "cursor"
    /\ text = <<>>
    /\ parsed = None
    /\ solver = None
    /\ results = <<>>
    /\ output = <<>>
    /\ cursor = CursorDefault
    /\ called = None

call(op, r) ==
    /\ cursor' = r.cursor
    /\ called' = Some([op |-> op, before |-> cursor, ok |-> r.ok, err |-> r.err])
    /\ UNCHANGED <<pc, text, parsed, solver, results, output>>

CallNext == pc = "cursor" /\ call("next", Cursor_next(cursor))

CallPrev == pc = "cursor" /\ call("prev", Cursor_prev(cursor))

CallSkip == pc = "cursor" /\ call("skip", Cursor_skip(cursor))

CursorStep == CallNext \/ CallPrev \/ CallSkip

CursorSpec == CursorInit /\ [][CursorStep]_vars

(* ---------------------------- PROPERTIES ------------------------------- *)
(* What the properties speak of, stated without the Solver: the houses of  *)
(* the grid, the values a grid holds, and the completions of a grid.       *)

Cells == INDICES \X INDICES

Rows == {{<<r, c>> : c \in INDICES} : r \in INDICES}
Columns == {{<<r, c>> : r \in INDICES} : c \in INDICES}
Blocks ==
    {{p \in Cells : p[1] \div ROW_PER_BLOCK = a /\ p[2] \div COL_PER_BLOCK = b} :
        a \in 0 .. (SIZE \div ROW_PER_BLOCK - 1), b \in 0 .. (SIZE \div COL_PER_BLOCK - 1)}
Houses == Rows \cup Columns \cup Blocks

SameHouse(p, q) ==
    \/ p[1] = q[1]
    \/ p[2] = q[2]
    \/ /\ p[1] \div ROW_PER_BLOCK = q[1] \div ROW_PER_BLOCK
       /\ p[2] \div COL_PER_BLOCK = q[2] \div COL_PER_BLOCK

Filled(g, p) == g[p[1]][p[2]].some

(* The value of each cell, -1 where the cell is empty; the given flag is   *)
(* left out.                                                               *)
Values(g) == [p \in Cells |-> IF Filled(g, p) THEN g[p[1]][p[2]].index ELSE -1]

(* Two distinct filled cells of one house hold the same value. *)
HasClash(g) ==
    \E p \in Cells : \E q \in Cells :
        /\ p # q
        /\ SameHouse(p, q)
        /\ Filled(g, p) /\ Filled(g, q)
        /\ g[p[1]][p[2]].index = g[q[1]][q[2]].index

(* No empty cell, and every house holds every value exactly once. *)
Sound(g) ==
    /\ \A p \in Cells : Filled(g, p)
    /\ \A h \in Houses : \A v \in INDICES :
          Cardinality({p \in h : Filled(g, p) /\ g[p[1]][p[2]].index = v}) = 1

(* g agrees with start on every cell that start fills. *)
Extends(g, start) ==
    \A p \in Cells : Filled(start, p) => Values(g)[p] = Values(start)[p]

(* The values no filled cell of p's houses holds in start. *)
Candidates(start, p) ==
    {v \in INDICES :
        \A q \in Cells :
            (q # p /\ SameHouse(p, q) /\ Filled(start, q)) => Values(start)[q] # v}

(* Every way to write a candidate into each cell of `open`. *)
RECURSIVE Fillings(_, _, _)
Fillings(start, open, partial) ==
    IF open = {} THEN partial
    ELSE LET p == CHOOSE q \in open : TRUE IN
         Fillings(start, open \ {p},
                  {[q \in Cells |-> IF q = p THEN v ELSE h[q]] :
                      h \in partial, v \in Candidates(start, p)})

(* The valid completions of start, as values: the complete grids that      *)
(* agree with start on its filled cells and repeat no value in a house.    *)
Completions(start) ==
    LET open == {p \in Cells : ~Filled(start, p)} IN
    IF HasClash(start) THEN {}
    ELSE {h \in Fillings(start, open, {Values(start)}) :
             \A p \in open : \A q \in Cells :
                 (q # p /\ SameHouse(p, q)) => h[p] # h[q]}

(* g before h in the lexicographic order of the values in row-major order. *)
LexLess(g, h) ==
    \E p \in Cells :
        /\ Values(g)[p] < Values(h)[p]
        /\ \A q \in Cells :
              (q[1] * SIZE + q[2] < p[1] * SIZE + p[2]) => Values(g)[q] = Values(h)[q]

Start == parsed[1].val
Pulled == Len(results)
Last == results[Len(results)]
Exhaustions == {i \in 1 .. Len(results) : results[i] = None}
Emissions == {i \in 1 .. Len(results) : results[i] # None}
Returned == pc = "idle" /\ results # <<>>
FreeCells == {p \in Cells : ~Filled(Start, p)}
AllGiven == \A r \in INDICES : \A c \in INDICES : Start[r][c].some /\ Start[r][c].given

(* C1.  Soundness: every grid a pull returns has no empty cell, and each   *)
(* row, column and block of it holds each of the nine values exactly once. *)
C1_Soundness ==
    (Returned /\ Last # None) => Sound(Last[1])

(* A pull has returned a grid in which the search filled several cells.    *)
C1_Witness ==
    /\ Returned /\ Last # None
    /\ Cardinality(FreeCells) >= 3

(* C2.  Completeness and uniqueness: up to the first exhaustion the grids  *)
(* returned are distinct valid completions of the starting grid, and when  *)
(* the first exhaustion is reported they are all of them (none when the    *)
(* starting grid has no completion).                                       *)
C2_Complete ==
    (Returned /\ Exhaustions \subseteq {Pulled}) =>
        /\ \A i \in Emissions :
              /\ Sound(results[i][1])
              /\ Extends(results[i][1], Start)
        /\ \A i \in Emissions : \A j \in Emissions :
              i # j => Values(results[i][1]) # Values(results[j][1])
        /\ Last = None =>
              {Values(results[i][1]) : i \in Emissions} = Completions(Start)

(* The first exhaustion is reported after two or more grids. *)
C2_Witness ==
    /\ Returned /\ Exhaustions = {Pulled}
    /\ Pulled >= 3

(* C3 as the claim states it: once a pull has reported exhaustion, every   *)
(* later pull reports exhaustion.                                          *)
C3_OneShot ==
    \A i \in Exhaustions : \A j \in 1 .. Pulled : j > i => results[j] = None

(* C3, amended.  The pull that reports exhaustion leaves the Solver as     *)
(* solve() built it, and the pulls after it repeat the enumeration: with   *)
(* n the pull that first reported exhaustion, pull n + k returns what pull *)
(* k returned.                                                             *)
C3_Restarts ==
    /\ (Returned /\ Last = None) => solver = Some(Grid_solve(Start).val)
    /\ \A n \in Exhaustions : \A k \in 1 .. Pulled :
          (Exhaustions \cap (1 .. n - 1) = {} /\ n + k <= Pulled) =>
              results[n + k] = results[k]

(* A grid is returned after an exhaustion. *)
C3_Witness ==
    \E n \in Exhaustions : \E k \in Emissions : k > n

(* C4 as the claim states it: every grid returned is lexicographically     *)
(* greater than the grid returned before it.                               *)
C4_Increasing ==
    \A i \in Emissions : \A j \in Emissions :
        (i < j /\ \A k \in Emissions : ~(i < k /\ k < j)) =>
            LexLess(results[i][1], results[j][1])

(* C4, amended.  Between two exhaustions the grids are returned in         *)
(* strictly increasing lexicographic order: a grid returned by the pull    *)
(* right after the pull that returned another is greater than it.          *)
C4_IncreasingInRound ==
    Returned => \A i \in Emissions :
        (i + 1 \in Emissions) => LexLess(results[i][1], results[i + 1][1])

(* Two pulls in a row returned a grid. *)
C4_Witness ==
    \E i \in Emissions : i + 1 \in Emissions

(* C5.  Validation gate: solve() fails with InvalidGrid exactly when two   *)
(* distinct filled cells of one house hold the same value, and then no     *)
(* Solver exists and nothing was enumerated.                               *)
C5_Gate ==
    /\ pc = "invalid" => (HasClash(Start) /\ solver = None /\ results = <<>>)
    /\ (pc = "idle" /\ results = <<>>) => (~HasClash(Start) /\ solver # None)

(* solve() refused a grid whose only repetition is inside a block. *)
C5_Witness ==
    /\ pc = "invalid"
    /\ \A p \in Cells : \A q \in Cells :
          (p # q /\ Filled(Start, p) /\ Filled(Start, q)
                 /\ Values(Start)[p] = Values(Start)[q])
              => (p[1] # q[1] /\ p[2] # q[2])

(* C6.  Given digits are never altered: while a Solver exists, and in      *)
(* every grid returned, each cell the starting grid fills holds the same   *)
(* value, flagged given.                                                   *)
C6_GivensKept ==
    solver # None =>
        /\ \A r \in INDICES : \A c \in INDICES :
              Start[r][c].some =>
                  /\ solver[1].grid[r][c] = Start[r][c]
                  /\ solver[1].grid[r][c].given
        /\ Returned =>
              \A i \in Emissions : \A r \in INDICES : \A c \in INDICES :
                  Start[r][c].some =>
                      /\ results[i][1][r][c] = Start[r][c]
                      /\ results[i][1][r][c].given

(* The search has gone back over a grid with both given and free cells,    *)
(* to its exhaustion.                                                      *)
C6_Witness ==
    /\ Returned /\ Last = None /\ Pulled >= 2
    /\ FreeCells # {} /\ FreeCells # Cells

(* C7.  Termination: every pull returns after finitely many iterations,    *)
(* and a caller who keeps pulling is told of exhaustion after finitely     *)
(* many grids (or has pulled MaxPulls times).                              *)
C7_Terminates ==
    /\ (pc = "loop") ~> (pc = "idle")
    /\ (pc = "idle") ~> (pc = "idle" /\ (Exhaustions # {} \/ Pulled = MaxPulls))

(* A pull that had to go back over the grid has returned exhaustion. *)
C7_Witness ==
    /\ Returned /\ Last = None
    /\ FreeCells # {}

(* C8.  Zero free cells: when all 81 cells are given, the first pull       *)
(* returns the starting grid unchanged and the second reports exhaustion.  *)
C8_FullGrid ==
    (solver # None /\ Pulled >= 1 /\ AllGiven) =>
        /\ Pulled >= 1 => results[1] = Some(Start)
        /\ Pulled >= 2 => results[2] = None

(* Both pulls on a full grid have returned. *)
C8_Witness ==
    /\ solver # None /\ Pulled >= 2
    /\ AllGiven

TokenCount == 1 + Cardinality({i \in 1 .. Len(text) : text[i] = SEPARATOR})
Tokens == split(text)
IsDigitToken(token) == token = <<PLACEHOLDER>> \/ \E v \in 1 .. SIZE : token = <<SYMBOLS[v]>>
ParseReturned == pc \in {"parsed", "parse_error"}
Minimum(a, b) == IF a < b THEN a ELSE b

(* C9 as the claim states it: every text whose number of tokens is not 81  *)
(* fails with InvalidDigitCount.                                           *)
C9_CountFirst ==
    (ParseReturned /\ TokenCount # CELLS) => parsed = Some(Err("InvalidDigitCount"))

(* C9, amended.  A text whose number of tokens is not 81 always fails; it  *)
(* fails with InvalidDigitCount when each of its first 81 tokens (all of   *)
(* them when fewer) is the placeholder or a symbol, and with               *)
(* ParseDigit(Unknown) when one of them is not.                            *)
C9_CountError ==
    (ParseReturned /\ TokenCount # CELLS) =>
        LET tokens == Tokens IN
        IF \A k \in 1 .. Minimum(TokenCount, CELLS) : IsDigitToken(tokens[k])
        THEN parsed = Some(Err("InvalidDigitCount"))
        ELSE parsed = Some(Err("ParseDigit(Unknown)"))

(* A text of more than 81 tokens, all of them digits, was refused. *)
C9_Witness ==
    /\ pc = "parse_error" /\ TokenCount > CELLS
    /\ parsed = Some(Err("InvalidDigitCount"))

(* What one token decodes to. *)
Decoded(token) ==
    IF token = <<PLACEHOLDER>> THEN DigitNone
    ELSE DigitSome(TRUE, (CHOOSE v \in 1 .. SIZE : token = <<SYMBOLS[v]>>) - 1)

(* C10.  Token decoding: a text of exactly 81 tokens parses iff every      *)
(* token is the placeholder or a symbol; cell (r, c) is then the decoding  *)
(* of token 9 * r + c, and otherwise parse fails with ParseDigit(Unknown). *)
C10_Decoding ==
    (ParseReturned /\ TokenCount = CELLS) =>
        LET tokens == Tokens IN
        IF \A k \in 1 .. CELLS : IsDigitToken(tokens[k])
        THEN /\ parsed[1].ok
             /\ \A p \in Cells : Start[p[1]][p[2]] = Decoded(tokens[SIZE * p[1] + p[2] + 1])
        ELSE parsed = Some(Err("ParseDigit(Unknown)"))

(* A text of 81 tokens with both digits and placeholders was parsed. *)
C10_Witness ==
    /\ pc = "parsed"
    /\ \E p \in Cells : Filled(Start, p)
    /\ \E p \in Cells : ~Filled(Start, p)

(* The grid whose rendering is in output: the last grid returned, or the   *)
(* parsed grid before any was.                                             *)
MaxOf(indices) == CHOOSE i \in indices : \A j \in indices : j <= i
Rendered == IF Emissions = {} THEN Start ELSE results[MaxOf(Emissions)][1]
Printed == output # <<>> /\ pc \in {"parsed", "idle"}

(* A rendering with its newlines and its final separator taken out. *)
NotNewline(ch) == ch # "\n"
Unframed(rendering) ==
    LET flat == SelectSeq(rendering, NotNewline) IN
    IF flat # <<>> /\ flat[Len(flat)] = SEPARATOR
    THEN SubSeq(flat, 1, Len(flat) - 1)
    ELSE flat

(* C11 as the claim states it: parsing the rendering of a grid succeeds    *)
(* and gives a grid equal to it.                                           *)
C11_RoundTrip ==
    Printed =>
        LET back == Grid_from_str(output) IN
        back.ok /\ Grid_eq(back.val, Rendered)

(* C11, amended.  The rendering of a grid does not parse: its first token  *)
(* begins with a newline, and parse fails with ParseDigit(Unknown).  The   *)
(* rendering with its newlines and its final separator taken out parses,   *)
(* to a grid equal to the rendered one, every filled cell flagged given.   *)
C11_RoundTripUnframed ==
    Printed =>
        /\ Grid_from_str(output) = Err("ParseDigit(Unknown)")
        /\ LET back == Grid_from_str(Unframed(output)) IN
           /\ back.ok
           /\ Grid_eq(back.val, Rendered)
           /\ \A r \in INDICES : \A c \in INDICES :
                  back.val[r][c].some => back.val[r][c].given

(* A grid with cells the search filled was rendered. *)
C11_Witness ==
    /\ Printed /\ Emissions # {}
    /\ \E r \in INDICES : \E c \in INDICES : ~Rendered[r][c].given

(* The text of 81 tokens that holds the values of a grid, written as the   *)
(* tests write their grids.                                                *)
TextOf(g) ==
    join([i \in 1 .. CELLS |->
            LET d == g[(i - 1) \div SIZE][(i - 1) % SIZE] IN
            IF d.some THEN <<SYMBOLS[d.index + 1]>> ELSE <<PLACEHOLDER>>])

SameValue(a, b) == (~a.some /\ ~b.some) \/ (a.some /\ b.some /\ a.index = b.index)

(* C12.  Value-only equality: two Digits are equal iff both are empty or   *)
(* both hold the same value, whatever their given flags; so a grid the     *)
(* Solver returned is equal to the grid parsed from the same 81 values.    *)
C12_ValueEquality ==
    (Returned /\ Last # None) =>
        LET expected == Grid_from_str(TextOf(Last[1])) IN
        /\ expected.ok
        /\ Grid_eq(Last[1], expected.val)
        /\ \A r \in INDICES : \A c \in INDICES : \A q \in INDICES :
              /\ Digit_eq(Last[1][r][c], expected.val[r][q])
                      <=> SameValue(Last[1][r][c], expected.val[r][q])
              /\ Digit_eq(Last[1][r][c], Start[r][q])
                      <=> SameValue(Last[1][r][c], Start[r][q])

(* A returned grid differs from the parsed one in its given flags. *)
C12_Witness ==
    /\ Returned /\ Last # None
    /\ Last[1] # Grid_from_str(TextOf(Last[1])).val

LastCell == CELLS - 1

(* C13.  Cursor boundaries: whatever calls were made, the index is within  *)
(* 0..80; next() at index 80 leaves the index, sets forward = false and    *)
(* fails with AfterEnd, otherwise it adds one to the index and sets        *)
(* forward = true; prev() at index 0 leaves the index, sets forward = true *)
(* and fails with BeforeBegin, otherwise it takes one from the index and   *)
(* sets forward = false.                                                   *)
C13_Boundaries ==
    /\ cursor.index \in 0 .. LastCell
    /\ called # None =>
          LET before == called[1].before IN
          /\ called[1].op = "next" =>
                IF before.index = LastCell
                THEN /\ cursor = [index |-> before.index, forward |-> FALSE]
                     /\ ~called[1].ok /\ called[1].err = "AfterEnd"
                ELSE /\ cursor = [index |-> before.index + 1, forward |-> TRUE]
                     /\ called[1].ok
          /\ called[1].op = "prev" =>
                IF before.index = 0
                THEN /\ cursor = [index |-> before.index, forward |-> TRUE]
                     /\ ~called[1].ok /\ called[1].err = "BeforeBegin"
                ELSE /\ cursor = [index |-> before.index - 1, forward |-> FALSE]
                     /\ called[1].ok

(* next() was called at the last cell by a cursor that had gone back       *)
(* before. *)
C13_Witness ==
    /\ called # None
    /\ called[1].op = "next"
    /\ called[1].before = [index |-> LastCell, forward |-> FALSE]

(* The cell of grid g that cursor index i points to. *)
CellAt(g, i) == g[i \div SIZE][i % SIZE]
IsFree(i) == ~Start[i \div SIZE][i % SIZE].some
Looping == pc = "loop"
AtGiven == LET d == CellAt(solver[1].grid, solver[1].cursor.index) IN d.some /\ d.given

(* C14.  Direction-preserving skip.  Every iteration that moves the Cursor *)
(* up leaves forward = true and every one that moves it down leaves        *)
(* forward = false, so forward tells how the Cursor arrived.  An iteration *)
(* on a given cell moves the Cursor one cell that way and keeps forward;   *)
(* forward changes on a given cell only where the skip fails, forward at   *)
(* index 80 or backward at index 0, and then the pull returns.             *)
C14_SkipKeepsDirection ==
    [][Looping =>
          LET from == solver[1].cursor
              to == solver'[1].cursor
          IN  /\ to.index > from.index => to.forward
              /\ to.index < from.index => ~to.forward
              /\ AtGiven =>
                    /\ (from.forward /\ from.index < LastCell) =>
                          (to = [index |-> from.index + 1, forward |-> TRUE] /\ pc' = "loop")
                    /\ (~from.forward /\ from.index > 0) =>
                          (to = [index |-> from.index - 1, forward |-> FALSE] /\ pc' = "loop")
                    /\ to.forward # from.forward =>
                          /\ to.index = from.index
                          /\ pc' = "idle"
                          /\ \/ from.forward /\ from.index = LastCell
                             \/ ~from.forward /\ from.index = 0
                    /\ solver'[1].grid = solver[1].grid
    ]_vars

(* Going backward, the Cursor is on a given cell between two given cells:  *)
(* it came by a skip and leaves by a skip.                                 *)
C14_Witness ==
    /\ Looping /\ AtGiven
    /\ ~solver[1].cursor.forward
    /\ solver[1].cursor.index \in 1 .. (LastCell - 1)
    /\ ~IsFree(solver[1].cursor.index + 1)
    /\ ~IsFree(solver[1].cursor.index - 1)

AllCells == 0 .. LastCell
RowOf(i) == i \div SIZE
ColOf(i) == i % SIZE
BlkOf(i) == (RowOf(i) \div ROW_PER_BLOCK) * ROW_PER_BLOCK + ColOf(i) \div COL_PER_BLOCK
Marked(bitset) == {v \in INDICES : bitset[v]}

(* The values that the filled cells among `cells` hold in grid g. *)
ValuesIn(g, cells) == {CellAt(g, i).index : i \in {j \in cells : CellAt(g, j).some}}

RowCells == [h \in INDICES |-> {i \in AllCells : RowOf(i) = h}]
ColCells == [h \in INDICES |-> {i \in AllCells : ColOf(i) = h}]
BlkCells == [h \in INDICES |-> {i \in AllCells : BlkOf(i) = h}]

(* Each BitSet of Solver s holds the values of the settled cells of its    *)
(* house, and no other value.                                              *)
ExactMarks(s, Settled(_, _)) ==
    \A h \in INDICES :
        /\ Marked(s.row_states[h]) = ValuesIn(s.grid, {i \in RowCells[h] : Settled(s, i)})
        /\ Marked(s.col_states[h]) = ValuesIn(s.grid, {i \in ColCells[h] : Settled(s, i)})
        /\ Marked(s.blk_states[h]) = ValuesIn(s.grid, {i \in BlkCells[h] : Settled(s, i)})

(* Settled as the claim has it: given, or before the Cursor. *)
SettledBefore(s, i) == ~IsFree(i) \/ i < s.cursor.index

(* Settled: given, before the Cursor, or at the Cursor when it came        *)
(* backward.                                                               *)
SettledByDirection(s, i) ==
    \/ ~IsFree(i)
    \/ i < s.cursor.index
    \/ i = s.cursor.index /\ ~s.cursor.forward

(* A free cell holds a guess: a digit not flagged given. *)
HoldsGuess(s, i) == CellAt(s.grid, i).some /\ ~CellAt(s.grid, i).given

(* C15 as the claim states it: at the start of every iteration each free   *)
(* cell at or beyond the Cursor is empty and adds nothing to the BitSets,  *)
(* and each free cell before the Cursor holds a guess marked in its row,   *)
(* column and block BitSets and in no other.                               *)
C15_SettledBefore ==
    Looping =>
        LET s == solver[1]
        IN  /\ \A i \in AllCells :
                  IsFree(i) => (IF i >= s.cursor.index
                                THEN ~CellAt(s.grid, i).some
                                ELSE HoldsGuess(s, i))
            /\ ExactMarks(s, SettledBefore)

(* C15, amended.  At the start of every iteration each free cell beyond    *)
(* the Cursor is empty, each free cell before it holds a guess, and the    *)
(* free cell at the Cursor is empty when the Cursor came forward and holds *)
(* a guess when it came backward; each guess is marked in its row, column  *)
(* and block BitSets, and the BitSets hold the values of the given cells   *)
(* and of these guesses only.                                              *)
C15_SettledByDirection ==
    Looping =>
        LET s == solver[1]
        IN  /\ \A i \in AllCells :
                  IsFree(i) => (IF SettledByDirection(s, i)
                                THEN HoldsGuess(s, i)
                                ELSE ~CellAt(s.grid, i).some)
            /\ ExactMarks(s, SettledByDirection)

(* An iteration starts on a free cell that holds a guess, with free cells  *)
(* on both sides of it.                                                    *)
C15_Witness ==
    /\ Looping
    /\ LET s == solver[1] IN
       /\ IsFree(s.cursor.index) /\ HoldsGuess(s, s.cursor.index)
       /\ \E i \in AllCells : IsFree(i) /\ i < s.cursor.index
       /\ \E i \in AllCells : IsFree(i) /\ i > s.cursor.index

(* The cells that share a row, a column or a block with cell i. *)
Peers(i) == (RowCells[RowOf(i)] \cup ColCells[ColOf(i)] \cup BlkCells[BlkOf(i)]) \ {i}

(* The values the cell at i may take next in grid g: those no peer holds,  *)
(* above the guess the cell holds if it holds one.                         *)
Choices(g, i) ==
    {v \in INDICES :
        /\ v \notin ValuesIn(g, Peers(i))
        /\ CellAt(g, i).some => v > CellAt(g, i).index}

Least(values) == CHOOSE v \in values : \A w \in values : v <= w

(* C16.  Candidate choice: an iteration on a free cell commits the least   *)
(* value that no other filled cell of the cell's row, column or block      *)
(* holds and that is greater than the guess the cell held (any value if it *)
(* was empty); when there is none, the cell is left empty, its old guess   *)
(* is unmarked from its three BitSets and the Cursor goes one cell back    *)
(* (at index 0 the pull reports exhaustion).  No other cell changes.       *)
C16_CandidateChoice ==
    [][(Looping /\ ~AtGiven) =>
          LET s == solver[1]
              t == solver'[1]
              i == s.cursor.index
              old == CellAt(s.grid, i)
              choices == Choices(s.grid, i)
          IN  /\ \A j \in AllCells \ {i} : CellAt(t.grid, j) = CellAt(s.grid, j)
              /\ IF choices # {}
                 THEN /\ CellAt(t.grid, i) = DigitSome(FALSE, Least(choices))
                      /\ i < LastCell => t.cursor = [index |-> i + 1, forward |-> TRUE]
                 ELSE /\ CellAt(t.grid, i) = DigitNone
                      /\ old.some =>
                            /\ ~t.row_states[RowOf(i)][old.index]
                            /\ ~t.col_states[ColOf(i)][old.index]
                            /\ ~t.blk_states[BlkOf(i)][old.index]
                      /\ IF i > 0
                         THEN t.cursor = [index |-> i - 1, forward |-> FALSE] /\ pc' = "loop"
                         ELSE pc' = "idle" /\ results' = Append(results, None)
    ]_vars

(* A free cell holds a guess above a value that was open to it when the    *)
(* guess was made: the guess was raised from an earlier one.               *)
C16_Witness ==
    /\ Looping
    /\ \E i \in AllCells :
          /\ IsFree(i) /\ HoldsGuess(solver[1], i)
          /\ \E v \in INDICES :
                /\ v < CellAt(solver[1].grid, i).index
                /\ v \notin ValuesIn(solver[1].grid, Peers(i))

Constructed == pc = "idle" /\ results = <<>>
IsGivenIn(g, i) == CellAt(g, i).some /\ CellAt(g, i).given

(* C17.  Construction effect: after a successful solve() the Solver's grid *)
(* is the starting grid, its Cursor is (index 0, forward = true), and each *)
(* row, column and block BitSet holds the values of the given cells of its *)
(* house and no other.                                                     *)
C17_Construction ==
    Constructed =>
        LET s == solver[1] IN
        /\ s.grid = Start
        /\ s.cursor = [index |-> 0, forward |-> TRUE]
        /\ \A h \in INDICES :
              /\ Marked(s.row_states[h]) =
                     ValuesIn(Start, {i \in RowCells[h] : IsGivenIn(Start, i)})
              /\ Marked(s.col_states[h]) =
                     ValuesIn(Start, {i \in ColCells[h] : IsGivenIn(Start, i)})
              /\ Marked(s.blk_states[h]) =
                     ValuesIn(Start, {i \in BlkCells[h] : IsGivenIn(Start, i)})

(* A Solver was built for a grid with given cells and free cells, some     *)
(* house of which has no given cell.                                       *)
C17_Witness ==
    /\ Constructed
    /\ \E i \in AllCells : IsFree(i)
    /\ \E i \in AllCells : ~IsFree(i)
    /\ \E h \in INDICES : \A i \in RowCells[h] : IsFree(i)

FilledIn(g, cells) == {i \in cells : CellAt(g, i).some}

(* The BitSet holds the values of the filled cells among `cells`, which    *)
(* are all different.                                                      *)
Mirrors(bitset, g, cells) ==
    /\ Marked(bitset) = ValuesIn(g, cells)
    /\ Cardinality(ValuesIn(g, cells)) = Cardinality(FilledIn(g, cells))

(* C18.  BitSet/grid consistency: at the start of every iteration and      *)
(* between pulls, each row, column and block BitSet is the set of values   *)
(* that the filled cells of its house hold in the working grid, and no two *)
(* filled cells of one house hold the same value.                          *)
C18_Consistency ==
    pc \in {"loop", "idle"} =>
        LET s == solver[1] IN
        \A h \in INDICES :
            /\ Mirrors(s.row_states[h], s.grid, RowCells[h])
            /\ Mirrors(s.col_states[h], s.grid, ColCells[h])
            /\ Mirrors(s.blk_states[h], s.grid, BlkCells[h])

(* An iteration starts after guesses were made and one was taken back. *)
C18_Witness ==
    /\ Looping
    /\ ~solver[1].cursor.forward
    /\ \E i \in AllCells : IsFree(i) /\ HoldsGuess(solver[1], i)
    /\ \E i \in AllCells : IsFree(i) /\ ~CellAt(solver[1].grid, i).some

FreeAt == {i \in AllCells : IsFree(i)}

(* C19.  Cursor/direction/fill invariant: at the start of every iteration  *)
(* and between pulls, each free cell beyond the Cursor is empty and each   *)
(* free cell before it holds a guess; the cell at the Cursor, if free, is  *)
(* empty when forward = true and holds a guess when forward = false.       *)
C19_FillByCursor ==
    pc \in {"loop", "idle"} =>
        LET s == solver[1] IN
        \A i \in AllCells :
            IsFree(i) =>
                /\ i > s.cursor.index => ~CellAt(s.grid, i).some
                /\ i < s.cursor.index => HoldsGuess(s, i)
                /\ i = s.cursor.index =>
                      IF s.cursor.forward
                      THEN ~CellAt(s.grid, i).some
                      ELSE HoldsGuess(s, i)

(* Between two pulls, after a grid was returned, the Cursor rests on the   *)
(* last cell, which is free.                                               *)
C19_Witness ==
    /\ Returned /\ Last # None
    /\ IsFree(LastCell)
    /\ solver[1].cursor.index = LastCell
    /\ \E i \in AllCells : i < LastCell /\ IsFree(i)

(* C20.  State at exhaustion: when a pull reports exhaustion the Solver is *)
(* as it was after construction: its grid is the starting grid, every free *)
(* cell empty, its Cursor is (index 0, forward = true), and its BitSets    *)
(* hold the given values of their houses and no other.                     *)
C20_ExhaustedAsBuilt ==
    (Returned /\ Last = None) =>
        LET s == solver[1] IN
        /\ \A i \in AllCells :
              IF IsFree(i)
              THEN ~CellAt(s.grid, i).some
              ELSE CellAt(s.grid, i) = CellAt(Start, i)
        /\ s.cursor.index = 0 /\ s.cursor.forward
        /\ \A h \in INDICES :
              /\ Marked(s.row_states[h]) = ValuesIn(Start, RowCells[h] \ FreeAt)
              /\ Marked(s.col_states[h]) = ValuesIn(Start, ColCells[h] \ FreeAt)
              /\ Marked(s.blk_states[h]) = ValuesIn(Start, BlkCells[h] \ FreeAt)

(* Exhaustion was reported after grids were returned, by a search that had *)
(* filled free cells on either side of given ones.                         *)
C20_Witness ==
    /\ Returned /\ Last = None /\ Emissions # {}
    /\ IsFree(0) /\ IsFree(LastCell)

====
